---- MODULE Spec2Model ----
(***************************************************************************)
(* pullpatrol: a cron-triggered job that fetches the open pull requests of *)
(* the configured Bitbucket repositories page by page and posts one digest *)
(* message to a DingTalk webhook.                                          *)
(*                                                                         *)
(* The repository holds two copies of the worker: src/pr-worker-index.js   *)
(* and src/unnamed/part_000.  They share the control flow and differ in    *)
(* the draft filter and in createDingTalkMessage; the variable `variant`   *)
(* says which file a behaviour runs.                                       *)
(*                                                                         *)
(* A JavaScript string is modelled as a sequence of string pieces (the     *)
(* pieces of the template literal that builds it), so "" and null are both *)
(* the empty sequence, as both are falsy where the code tests them.        *)
(* The arrow character of the message template is written "->".            *)
(*                                                                         *)
(* part_000 does not run as a program: evaluating the module throws a      *)
(* ReferenceError at the stray token `async` of line 44, after             *)
(* cron.schedule was called and before any tick, and the process exits.    *)
(* Its functions are hoisted declarations and are modelled as called       *)
(* directly (CallFetchAll, Format), never from a tick.                     *)
(***************************************************************************)
EXTENDS Integers, Sequences, FiniteSets, TLC

VARIABLES
    variant,     \* which source file runs
    env,         \* process.env.BITBUCKET_REPOSITORIES
    now,         \* moment(), in hours
    run,         \* run[r]: the locals of the r-th invocation of main()
    fmtInput,    \* argument handed to createDingTalkMessage on its own
    fmtOutput    \* what it returned

vars == <<variant, env, now, run, fmtInput, fmtOutput>>

\* Longest chain of pages the source host serves for one repository.
MaxPages == 2
\* Number of cron ticks, that is of invocations of main(), in a behaviour.
MaxRuns == 2
\* Sizes of the RunResults handed to createDingTalkMessage on its own.
MaxFmtRepos == 2
MaxFmtPrs == 2

Index == "pr-worker-index.js"
Part000 == "part_000"

Runs == 1..MaxRuns

RECURSIVE Concat(_)
Concat(ss) == IF ss = <<>> THEN <<>> ELSE Head(ss) \o Concat(Tail(ss))

Last(s) == s[Len(s)]

(***************************************************************************)
(* Configuration: process.env.BITBUCKET_REPOSITORIES.split(',')            *)
(***************************************************************************)
\* An environment variable: unset, or a string given character by character.
Unset == [defined |-> FALSE, chars |-> <<>>]
Str(cs) == [defined |-> TRUE, chars |-> cs]

\* String.prototype.split with a one-character separator.
RECURSIVE Split(_, _)
Split(cs, sep) ==
    IF \A i \in 1..Len(cs) : cs[i] # sep
    THEN <<cs>>
    ELSE LET k == CHOOSE i \in 1..Len(cs) :
                      cs[i] = sep /\ \A j \in 1..(i - 1) : cs[j] # sep
         IN  <<SubSeq(cs, 1, k - 1)>> \o Split(SubSeq(cs, k + 1, Len(cs)), sep)

\* const repositories = env ? env.split(',') : [];
Repositories(e) ==
    IF e.defined /\ e.chars # <<>> THEN Split(e.chars, ",") ELSE <<>>

\* const url = `https://api.bitbucket.org/2.0/repositories/${WORKSPACE}/${repo}/pullrequests`;
RepoUrl(repo) ==
    <<"https://api.bitbucket.org/2.0/repositories/", "workspace", "/">>
        \o repo \o <<"/pullrequests">>

(***************************************************************************)
(* The per-record transform and the draft filter                           *)
(***************************************************************************)
\* moment.format('YYYY-MM-DD HH:mm:ss') of a time given in hours.
FormatMoment(h) == <<ToString(h \div 24), " ", ToString(h % 24), ":00:00">>

\* Reading pr.links.html.href, pr.source.branch.name, pr.destination.branch.name
\* or pr.author.nickname of a record that lacks the object throws a TypeError.
Throws(pr) == ~pr.nested

PrFields(pr, t) ==
    [id |-> <<"#", ToString(pr.id)>>,
     title |-> pr.title,
     link |-> pr.href,
     duration |-> (t - pr.created_on) \div 24,
     created |-> FormatMoment(pr.created_on),
     merged |-> IF pr.merged_on # <<>> THEN FormatMoment(pr.merged_on[1])
                ELSE <<"Not Merged">>,
     sourceBranch |-> pr.source,
     destinationBranch |-> pr.destination,
     commentCount |-> pr.comment_count,
     author |-> pr.author]

\* const prData = {...}: the copy in part_000 has no draft field.
ToPrData(v, pr, t) ==
    IF v = Index
    THEN [id |-> PrFields(pr, t).id, title |-> PrFields(pr, t).title,
          link |-> PrFields(pr, t).link, duration |-> PrFields(pr, t).duration,
          created |-> PrFields(pr, t).created, merged |-> PrFields(pr, t).merged,
          sourceBranch |-> PrFields(pr, t).sourceBranch,
          destinationBranch |-> PrFields(pr, t).destinationBranch,
          commentCount |-> PrFields(pr, t).commentCount,
          author |-> PrFields(pr, t).author, draft |-> pr.draft]
    ELSE PrFields(pr, t)

\* if (prData.draft) return;   (only in pr-worker-index.js)
Skipped(v, pr) == v = Index /\ pr.draft

\* A slip in the push: the record goes to the front of the list.
PushRecordFront(v, acc, pr, t) ==
    IF Skipped(v, pr) THEN acc ELSE <<ToPrData(v, pr, t)>> \o acc

\* The forEach callback on a record it can read: pullRequests.push(prData)
\* unless the record is skipped.
PushRecord(v, acc, pr, t) ==
    IF Skipped(v, pr) THEN acc ELSE Append(acc, ToPrData(v, pr, t))

\* response.data.values.forEach(pr => {...}) inside the try block: the
\* records are pushed one by one; a throw leaves the ones pushed so far.
RECURSIVE ProcessPage(_, _, _, _)
ProcessPage(v, acc, values, t) ==
    IF values = <<>> THEN [pullRequests |-> acc, threw |-> FALSE]
    ELSE IF Throws(Head(values)) THEN [pullRequests |-> acc, threw |-> TRUE]
    ELSE ProcessPage(v, PushRecord(v, acc, Head(values), t), Tail(values), t)

\* A slip in the pagination: the "next" pointer is never followed.
NextOfIgnored(resp) == <<>>

\* nextUrl = response.data.next || null;
NextOf(resp) == resp.next

(***************************************************************************)
(* createDingTalkMessage                                                   *)
(***************************************************************************)
NonEmpty(repositoriesData) ==
    SelectSeq(repositoriesData, LAMBDA repo : Len(repo.pullRequests) > 0)

\* let isPrEmpty = repositoriesData.filter(...).length == 0;
\* part_000 has no such test.
IsPrEmpty(v, repositoriesData) ==
    v = Index /\ Len(NonEmpty(repositoriesData)) = 0

EmptyContent ==
    <<"Hi Team,\n\nCurrently there is no pull request(s) to be reviewed.\n\nThank you.">>

\* The text appended for one pull request; index is forEach's 0-based index.
PrLine(v, pr, index) ==
    IF v = Index
    THEN <<ToString(index + 1), ". ">> \o pr.id \o <<" [">> \o pr.title
            \o <<"] -> ">> \o pr.link \o <<"/. ">>
            \o (IF pr.duration > 0
                THEN <<" Opened ", ToString(pr.duration), " day">>
                        \o (IF pr.duration > 1 THEN <<"s">> ELSE <<>>)
                        \o <<" ago.">>
                ELSE <<>>)
            \o (IF pr.commentCount > 0
                THEN <<" Comments: ", ToString(pr.commentCount), "\n">>
                ELSE <<"\n">>)
            \o <<"\n">>
    ELSE <<ToString(index + 1), ". ">> \o pr.id \o <<" [">> \o pr.title
            \o <<"] -> ">> \o pr.link \o <<"\n">>
            \o (IF pr.duration > 0
                THEN <<"Duration: ", ToString(pr.duration), " day\n">>
                ELSE <<>>)
            \o (IF pr.commentCount > 0
                THEN <<"Comments: ", ToString(pr.commentCount), "\n\n">>
                ELSE <<"\n">>)

\* .map(repo => {...}): the header line and the lines of the pull requests.
RepoMessage(v, repo) ==
    (IF v = Index THEN <<"-- ">> \o repo.repo \o <<"\n">>
     ELSE <<"**">> \o repo.repo \o <<"**\n">>)
        \o Concat([i \in 1..Len(repo.pullRequests) |->
                      PrLine(v, repo.pullRequests[i], i - 1)])

\* Array.prototype.join
RECURSIVE Join(_, _)
Join(ss, sep) ==
    IF ss = <<>> THEN <<>>
    ELSE IF Len(ss) = 1 THEN ss[1]
    ELSE ss[1] \o sep \o Join(Tail(ss), sep)

PrMessages(v, repositoriesData) ==
    Join([i \in 1..Len(NonEmpty(repositoriesData)) |->
             RepoMessage(v, NonEmpty(repositoriesData)[i])], <<"\n\n">>)

ListingContent(v, repositoriesData) ==
    (IF v = Index
     THEN <<"Hi Team,\n\nKindly review the following pending pull requests. Please approve them as needed or close them if they are no longer applicable.\n\n">>
     ELSE <<"Hi Team Dear developers, \n\nPlease review the following pending pull requests. Approve them accordingly, or close them if they are no longer relevant.\n\n">>)
        \o PrMessages(v, repositoriesData) \o <<"\n\nThank you.">>

createDingTalkMessage(v, repositoriesData) ==
    [msgtype |-> "text",
     text |-> [content |-> IF IsPrEmpty(v, repositoriesData) THEN EmptyContent
                           ELSE ListingContent(v, repositoriesData)],
     at |-> [isAtAll |-> TRUE]]

(***************************************************************************)
(* The source host and the webhook                                         *)
(***************************************************************************)
\* One record of response.data.values.  kind "bad" lacks a nested object.
RawPr(id, kind) ==
    [id |-> id, title |-> <<"title ", ToString(id)>>,
     href |-> <<"https://bitbucket.org/pr/", ToString(id)>>,
     created_on |-> 58, merged_on |-> <<>>,
     source |-> <<"feature">>, destination |-> <<"main">>,
     comment_count |-> 2, author |-> <<"dev">>,
     draft |-> (kind = "draft"), nested |-> (kind # "bad")]

\* The host numbers the records of page k of a repository k*10+1, k*10+2, ...
PageValues(shape, k) == [i \in 1..Len(shape) |-> RawPr(k * 10 + i, shape[i])]

\* The pages the host may serve, by the kinds of their records.
PageShapes ==
    {<<"draft">>, <<"open", "draft", "open">>, <<"open", "bad", "open">>}

\* The pages served while two runs overlap.
OverlapShapes == {<<"draft", "open">>}

\* The "next" pointer of page k of a repository.
PageUrl(repo, k) == RepoUrl(repo) \o <<"?page=", ToString(k)>>

DingWebhookUrl == <<"https://oapi.dingtalk.com/robot/send?access_token=", "token">>

(***************************************************************************)
(* One invocation of main(): fetchAllPullRequests, then sendToDingTalk.    *)
(* Each operator below maps the locals of the invocation to their values   *)
(* at its next await.                                                      *)
(***************************************************************************)
IdleRun ==
    [pc |-> "idle", repositories |-> <<>>, repoIdx |-> 0,
     pullRequests |-> <<>>, nextUrl |-> <<>>, repositoriesData |-> <<>>,
     inflight |-> <<>>,      \* requests issued and not yet settled
     requests |-> <<>>,      \* every request issued, in order
     served |-> [idx |-> 0, pages |-> <<>>],  \* responses of the latest loop
     console |-> <<>>]

GetRequest(st) ==
    [kind |-> "get", idx |-> st.repoIdx, url |-> st.nextUrl, body |-> <<>>]

PostRequest(message) ==
    [kind |-> "post", idx |-> 0, url |-> DingWebhookUrl, body |-> <<message>>]

\* await axios.get(nextUrl, ...)
IssueGet(st) ==
    [st EXCEPT !.pc = "awaitGet",
               !.inflight = Append(@, GetRequest(st)),
               !.requests = Append(@, GetRequest(st))]

\* sendToDingTalk up to: await axios.post(dingWebhookUrl, message)
sendToDingTalk(st) ==
    LET message == createDingTalkMessage(variant, st.repositoriesData)
    IN  [st EXCEPT !.pc = "awaitPost",
                   !.inflight = Append(@, PostRequest(message)),
                   !.requests = Append(@, PostRequest(message)),
                   !.console = IF variant = Index
                               THEN Append(@, "JSON.stringify(message)") ELSE @]

\* return repositoriesData;
Return(st) == [st EXCEPT !.pc = "returned"]

\* A slip: the first request of the following repository is issued together
\* with the first request of the i-th, without awaiting it.
EnterRepoPrefetch(st, i) ==
    IF i > Len(st.repositories)
    THEN Return([st EXCEPT !.repoIdx = i])
    ELSE LET first == IssueGet([st EXCEPT !.repoIdx = i,
                                          !.pullRequests = <<>>,
                                          !.nextUrl = RepoUrl(st.repositories[i])])
             ahead == [kind |-> "get", idx |-> i + 1,
                       url |-> RepoUrl(st.repositories[i + 1]), body |-> <<>>]
         IN  IF i < Len(st.repositories)
             THEN [first EXCEPT !.inflight = Append(@, ahead),
                                !.requests = Append(@, ahead)]
             ELSE first

\* for (const repo of repositories): the i-th iteration up to its first await;
\* past the last one, return repositoriesData: the promise that main awaits
\* at line 33 resolves and main resumes in a later microtask.
EnterRepo(st, i) ==
    IF i > Len(st.repositories)
    THEN Return([st EXCEPT !.repoIdx = i])
    ELSE IssueGet([st EXCEPT !.repoIdx = i,
                             !.pullRequests = <<>>,
                             !.nextUrl = RepoUrl(st.repositories[i])])

\* A slip: a repository without pull requests gets no digest.
LeaveRepoSkipEmpty(st) ==
    EnterRepo([st EXCEPT !.repositoriesData =
                   IF st.pullRequests = <<>> THEN @
                   ELSE Append(@, [repo |-> st.repositories[st.repoIdx],
                                   pullRequests |-> st.pullRequests])],
              st.repoIdx + 1)

\* repositoriesData.push({repo, pullRequests}) and the next iteration.
LeaveRepo(st) ==
    EnterRepo([st EXCEPT !.repositoriesData =
                   Append(@, [repo |-> st.repositories[st.repoIdx],
                              pullRequests |-> st.pullRequests])],
              st.repoIdx + 1)

\* while (nextUrl) {...}
WhileLoop(st) == IF st.nextUrl # <<>> THEN IssueGet(st) ELSE LeaveRepo(st)

\* A slip: no try/catch around the fetch, so the error reaches main's catch
\* and the run ends there.
CatchFetchErrorInMain(st) ==
    [st EXCEPT !.pc = "done", !.console = Append(@, "Error in main function:")]

\* catch (error) { console.error(...); break; }
CatchFetchError(st) ==
    LeaveRepo([st EXCEPT !.console = Append(@, "Error fetching pull requests:")])

\* The awaited request settles with `entry`.
Settle(st, entry) ==
    [st EXCEPT !.inflight = Tail(@),
               !.served = IF @.idx = st.repoIdx
                          THEN [@ EXCEPT !.pages = Append(@, entry)]
                          ELSE [idx |-> st.repoIdx, pages |-> <<entry>>]]

\* The try block after axios.get resolved with resp.
OnResponse(st, resp) ==
    LET p == ProcessPage(variant, st.pullRequests, resp.values, now)
        st1 == [Settle(st, resp) EXCEPT !.pullRequests = p.pullRequests]
    IN  IF p.threw THEN CatchFetchError(st1)
        ELSE WhileLoop([st1 EXCEPT !.nextUrl = NextOf(resp)])

Rejected == [ok |-> FALSE, values |-> <<>>, next |-> <<>>]

\* axios.get rejected.
OnGetError(st) == CatchFetchError(Settle(st, Rejected))

\* A slip: a rejected post is sent again.
OnPostSettledRetry(st, ok) ==
    IF ok
    THEN [st EXCEPT !.pc = "done", !.inflight = Tail(@),
                    !.console = Append(@, "DingTalk notification sent successfully:")]
    ELSE sendToDingTalk([st EXCEPT !.inflight = Tail(@),
                    !.console = Append(@, "Error sending DingTalk notification:")])

\* axios.post resolved or rejected; nothing is thrown past sendToDingTalk.
OnPostSettled(st, ok) ==
    [st EXCEPT !.pc = "done",
               !.inflight = Tail(@),
               !.console = Append(@, IF ok
                   THEN "DingTalk notification sent successfully:"
                   ELSE "Error sending DingTalk notification:")]

\* const repositories = ...; let repositoriesData = []; the for loop.
fetchAllPullRequests(st) ==
    EnterRepo([st EXCEPT !.repositories = Repositories(env)], 1)

\* A slip: the accumulators live at module scope, so a new run empties the
\* ones the earlier runs are filling.
MainShared(rs, r) ==
    [q \in DOMAIN rs |->
        IF q = r THEN fetchAllPullRequests(IdleRun)
        ELSE [rs[q] EXCEPT !.pullRequests = <<>>, !.repositoriesData = <<>>]]

\* cron.schedule(CRON_SCHEDULER, () => { main(); })
Main(rs, r) == [rs EXCEPT ![r] = fetchAllPullRequests(IdleRun)]

(***************************************************************************)
(* Actions                                                                 *)
(***************************************************************************)
\* Module evaluation reaches the end of the file: part_000 throws at line 44.
Loaded(v) == v = Index

\* Number of the page the awaited GET of run r asks for.
PageNo(st) == IF st.served.idx = st.repoIdx THEN Len(st.served.pages) + 1 ELSE 1

\* The cron callback: main() up to its first await.
Tick(r) ==
    /\ Loaded(variant)
    /\ run[r].pc = "idle"
    /\ run' = Main(run, r)
    /\ UNCHANGED <<variant, env, now, fmtInput, fmtOutput>>

\* fetchAllPullRequests called on its own, up to its first await.
CallFetchAll(r) ==
    /\ run[r].pc = "idle"
    /\ run' = [run EXCEPT ![r] = fetchAllPullRequests(IdleRun)]
    /\ UNCHANGED <<variant, env, now, fmtInput, fmtOutput>>

\* main resumes after `await fetchAllPullRequests()` and calls sendToDingTalk,
\* which runs up to `await axios.post`.
MainResume(r) ==
    /\ Loaded(variant)
    /\ run[r].pc = "returned"
    /\ run' = [run EXCEPT ![r] = sendToDingTalk(run[r])]
    /\ UNCHANGED <<variant, env, now, fmtInput, fmtOutput>>

GetResolve(r, shape, hasNext) ==
    /\ run[r].pc = "awaitGet"
    /\ hasNext => PageNo(run[r]) < MaxPages
    /\ LET st == run[r]
           k == PageNo(st)
           resp == [ok |-> TRUE, values |-> PageValues(shape, k),
                    next |-> IF hasNext
                             THEN PageUrl(st.repositories[st.repoIdx], k + 1)
                             ELSE <<>>]
       IN  run' = [run EXCEPT ![r] = OnResponse(st, resp)]
    /\ UNCHANGED <<variant, env, now, fmtInput, fmtOutput>>

GetReject(r) ==
    /\ run[r].pc = "awaitGet"
    /\ run' = [run EXCEPT ![r] = OnGetError(run[r])]
    /\ UNCHANGED <<variant, env, now, fmtInput, fmtOutput>>

PostResolve(r) ==
    /\ run[r].pc = "awaitPost"
    /\ run' = [run EXCEPT ![r] = OnPostSettled(run[r], TRUE)]
    /\ UNCHANGED <<variant, env, now, fmtInput, fmtOutput>>

PostReject(r) ==
    /\ run[r].pc = "awaitPost"
    /\ run' = [run EXCEPT ![r] = OnPostSettled(run[r], FALSE)]
    /\ UNCHANGED <<variant, env, now, fmtInput, fmtOutput>>

\* Values of BITBUCKET_REPOSITORIES: unset, "", "a", "a,b", "b,,a".
EnvValues ==
    {Unset, Str(<<>>), Str(<<"a">>), Str(<<"a", ",", "b">>),
     Str(<<"b", ",", ",", "a">>)}

InitRuns(v, envs) ==
    /\ variant = v
    /\ env \in envs
    /\ now = 100
    /\ run = [r \in Runs |-> IdleRun]
    /\ fmtInput = <<>>
    /\ fmtOutput = <<>>

\* One run of pr-worker-index.js.
Init == InitRuns(Index, EnvValues)

Next ==
    \E r \in {1} :
        \/ Tick(r)
        \/ \E shape \in PageShapes, hasNext \in BOOLEAN : GetResolve(r, shape, hasNext)
        \/ GetReject(r)
        \/ MainResume(r)
        \/ PostResolve(r)
        \/ PostReject(r)

Spec == Init /\ [][Next]_vars

\* One call of part_000's fetchAllPullRequests.
InitPart000 == InitRuns(Part000, EnvValues)

NextFetch ==
    \E r \in {1} :
        \/ CallFetchAll(r)
        \/ \E shape \in PageShapes, hasNext \in BOOLEAN : GetResolve(r, shape, hasNext)
        \/ GetReject(r)

SpecFetchPart000 == InitPart000 /\ [][NextFetch]_vars

\* part_000 as a program: no tick ever runs.
SpecPart000 == InitPart000 /\ [][Next]_vars

\* Ticks that fire while earlier runs are still awaiting.
InitOverlap == InitRuns(Index, {Str(<<"a">>)})

NextOverlap ==
    \E r \in Runs :
        \/ Tick(r)
        \/ \E shape \in OverlapShapes, hasNext \in BOOLEAN : GetResolve(r, shape, hasNext)
        \/ GetReject(r)
        \/ MainResume(r)
        \/ PostResolve(r)
        \/ PostReject(r)

SpecOverlap == InitOverlap /\ [][NextOverlap]_vars

(***************************************************************************)
(* createDingTalkMessage on its own, over bounded RunResults, for both     *)
(* copies of the function.                                                 *)
(***************************************************************************)
\* A record created `age` hours before now with `cc` comments.
FmtRawPr(age, cc) ==
    [RawPr(7, "open") EXCEPT !.created_on = 100 - age, !.comment_count = cc]

\* Ages of 10, 30 and 80 hours: durations of 0, 1 and 3 days.
FmtRawPrs == {FmtRawPr(age, cc) : age \in {10, 30, 80}, cc \in {0, 5}}

SeqsUpTo(S, n) == UNION {[1..k -> S] : k \in 0..n}

FmtRepoName(i) == <<"r", ToString(i)>>

FmtResults(v) ==
    LET prs == {ToPrData(v, raw, 100) : raw \in FmtRawPrs}
        lists == SeqsUpTo(prs, MaxFmtPrs)
    IN  {[i \in 1..Len(ls) |-> [repo |-> FmtRepoName(i), pullRequests |-> ls[i]]] :
            ls \in SeqsUpTo(lists, MaxFmtRepos)}

InitFormat ==
    /\ variant \in {Index, Part000}
    /\ env = Unset
    /\ now = 100
    /\ run = [r \in Runs |-> IdleRun]
    /\ fmtInput \in FmtResults(variant)
    /\ fmtOutput = <<>>

Format ==
    /\ fmtOutput = <<>>
    /\ fmtOutput' = <<createDingTalkMessage(variant, fmtInput)>>
    /\ UNCHANGED <<variant, env, now, run, fmtInput>>

NextFormat == Format

SpecFormat == InitFormat /\ [][NextFormat]_vars

(***************************************************************************)
(* Reading a run's state                                                   *)
(***************************************************************************)
\* The loop the latest response belongs to, and the responses it got so far.
LoopIdx(st) == st.served.idx
LoopPages(st) == st.served.pages

\* The latest loop has ended: its digest is in repositoriesData.
LoopEnded(st) == LoopIdx(st) >= 1 /\ Len(st.repositoriesData) >= LoopIdx(st)

\* What the latest loop accumulated: its digest once pushed, else the accumulator.
LoopPullRequests(st) ==
    IF LoopEnded(st) THEN st.repositoriesData[LoopIdx(st)].pullRequests
    ELSE st.pullRequests

\* The requests issued for the i-th configured repository, in order.
RequestsOf(st, i) ==
    SelectSeq(st.requests, LAMBDA q : q.kind = "get" /\ q.idx = i)

Posts(st) == SelectSeq(st.requests, LAMBDA q : q.kind = "post")

\* A response whose processing went through: fetched, and every record readable.
PageOk(page) == page.ok /\ \A i \in 1..Len(page.values) : page.values[i].nested

\* The records of a page the host flagged as drafts / not.
Drafts(page) == SelectSeq(page.values, LAMBDA pr : pr.draft)
NonDrafts(page) == SelectSeq(page.values, LAMBDA pr : ~pr.draft)

\* The records of a page that precede its first unreadable record.
Readable(page) ==
    IF PageOk(page) THEN page.values
    ELSE IF ~page.ok THEN <<>>
    ELSE SubSeq(page.values, 1,
                (CHOOSE i \in 1..Len(page.values) :
                     /\ ~page.values[i].nested
                     /\ \A j \in 1..(i - 1) : page.values[j].nested) - 1)

\* Identifier and title of a summary and of a host record.
SummaryKey(p) == <<p.id, p.title>>
RecordKey(pr) == <<<<"#", ToString(pr.id)>>, pr.title>>
Keys(prs) == [i \in 1..Len(prs) |-> SummaryKey(prs[i])]
RecordKeys(prs) == [i \in 1..Len(prs) |-> RecordKey(prs[i])]

Range(s) == {s[i] : i \in 1..Len(s)}

(***************************************************************************)
(* C1: no pull request record flagged draft ever appears in the            *)
(* pullRequests list of a repository digest: at every point of a run, no   *)
(* accumulated summary comes from a record the host flagged as a draft,    *)
(* whichever page served it, and a summary that carries the flag has it    *)
(* false.                                                                  *)
(***************************************************************************)
C1_NoDraftInDigest ==
    \A r \in Runs :
        LET st == run[r]
            draftKeys == UNION {Range(RecordKeys(Drafts(LoopPages(st)[k]))) :
                                    k \in 1..Len(LoopPages(st))}
        IN  \A i \in 1..Len(LoopPullRequests(st)) :
                LET p == LoopPullRequests(st)[i]
                IN  /\ SummaryKey(p) \notin draftKeys
                    /\ "draft" \in DOMAIN p => ~p.draft

\* A draft was served on the second page of a repository whose loop has ended
\* with a non-empty digest.
C1_Reached ==
    \E r \in Runs :
        /\ LoopEnded(run[r])
        /\ Len(LoopPages(run[r])) = 2
        /\ Drafts(LoopPages(run[r])[2]) # <<>>
        /\ LoopPullRequests(run[r]) # <<>>

(***************************************************************************)
(* C2: the result of fetchAllPullRequests has exactly one digest per       *)
(* configured repository identifier, in configuration order: joined with   *)
(* commas the digests' names give back the configured string, and an unset *)
(* or empty configuration gives no digest.                                 *)
(***************************************************************************)
C2_OneDigestPerRepository ==
    \A r \in Runs :
        run[r].pc \in {"returned", "awaitPost", "done"} =>
            LET names == [i \in 1..Len(run[r].repositoriesData) |->
                              run[r].repositoriesData[i].repo]
            IN  IF ~env.defined \/ env.chars = <<>>
                THEN names = <<>>
                ELSE /\ Join(names, <<",">>) = env.chars
                     /\ \A i \in 1..Len(names) : "," \notin Range(names[i])

\* Three configured repositories, one of them empty-named, with both a failed
\* and a successful fetch behind the result.
C2_Reached ==
    \E r \in Runs :
        /\ run[r].pc = "done"
        /\ Len(run[r].repositoriesData) = 3
        /\ "Error fetching pull requests:" \in Range(run[r].console)
        /\ \E i \in 1..3 : run[r].repositoriesData[i].pullRequests # <<>>

C2_ReachedEmpty ==
    \E r \in Runs : run[r].pc = "done" /\ run[r].repositoriesData = <<>>

\* The summaries a loop keeps from the pages it got: of every page, the
\* non-draft records among those that precede its first unreadable record.
KeptKeys(pages) ==
    Concat([k \in 1..Len(pages) |->
               RecordKeys(SelectSeq(Readable(pages[k]), LAMBDA pr : ~pr.draft))])

\* The latest loop ended on a failure: a rejected fetch or an unreadable page.
LoopFailed(st) == LoopPages(st) # <<>> /\ ~PageOk(Last(LoopPages(st)))

IsPrefix(s, t) == Len(s) <= Len(t) /\ SubSeq(t, 1, Len(s)) = s

(***************************************************************************)
(* C3: when a page fetch fails for a repository B the run does not abort:  *)
(* B's digest is appended and holds exactly what B's loop had accumulated  *)
(* before the failure, no further request is issued for B, the next        *)
(* configured repository is fetched (or, after the last one, the webhook   *)
(* post is issued), and no step of the run changes a digest that was       *)
(* already appended.                                                       *)
(***************************************************************************)
C3_AfterFailure(st) ==
    LoopFailed(st) =>
        LET b == LoopIdx(st)
        IN  /\ LoopEnded(st)
            /\ st.repositoriesData[b].repo = st.repositories[b]
            /\ Keys(st.repositoriesData[b].pullRequests) = KeptKeys(LoopPages(st))
            /\ Len(RequestsOf(st, b)) = Len(LoopPages(st))
            /\ \A k \in 1..(Len(LoopPages(st)) - 1) : PageOk(LoopPages(st)[k])
            /\ IF b < Len(st.repositories)
               THEN RequestsOf(st, b + 1) # <<>>
               ELSE st.pc = "returned" \/ Len(Posts(st)) = 1

C3_FetchFailureIsLocal ==
    /\ [](\A r \in Runs :
            /\ C3_AfterFailure(run[r])
            /\ run[r].pc = "done" =>
                   \A i \in 1..Len(run[r].repositories) : RequestsOf(run[r], i) # <<>>)
    /\ [][\A r \in Runs : IsPrefix(run[r].repositoriesData, run'[r].repositoriesData)]_vars

\* The second of three repositories failed on its second page after keeping
\* something from its first; the first repository's digest is non-empty and
\* the third repository's first page is being fetched.
C3_Reached ==
    \E r \in Runs :
        LET st == run[r]
        IN  /\ Len(st.repositories) = 3
            /\ LoopIdx(st) = 2
            /\ Len(LoopPages(st)) = 2
            /\ ~Last(LoopPages(st)).ok
            /\ Len(st.repositoriesData) = 2
            /\ st.repositoriesData[1].pullRequests # <<>>
            /\ st.repositoriesData[2].pullRequests # <<>>
            /\ st.pc = "awaitGet"
            /\ Head(st.inflight).idx = 3

(***************************************************************************)
(* C4: for a repository whose fetches all succeed, the pagination loop     *)
(* issues exactly one request per page of the chain of "next" pointers, in *)
(* chain order, starting at the repository's URL, and stops right after    *)
(* the first page whose "next" is absent; a first page with no "next"      *)
(* makes exactly one request.                                              *)
(***************************************************************************)
C4_OneRequestPerPage ==
    \A r \in Runs :
        LET st == run[r]
            i == LoopIdx(st)
            pages == LoopPages(st)
            reqs == RequestsOf(st, i)
        IN  (i >= 1 /\ \A k \in 1..Len(pages) : PageOk(pages[k])) =>
                /\ reqs[1].url = RepoUrl(st.repositories[i])
                /\ \A k \in 2..Len(reqs) :
                       /\ reqs[k].url = pages[k - 1].next
                       /\ reqs[k].url = PageUrl(st.repositories[i], k)
                /\ \A k \in 1..(Len(pages) - 1) : pages[k].next # <<>>
                /\ IF Last(pages).next = <<>>
                   THEN LoopEnded(st) /\ Len(reqs) = Len(pages)
                   ELSE ~LoopEnded(st) /\ Len(reqs) = Len(pages) + 1

\* A chain of MaxPages pages was followed to its end.
C4_Reached ==
    \E r \in Runs :
        /\ LoopEnded(run[r])
        /\ Len(LoopPages(run[r])) = MaxPages
        /\ \A k \in 1..MaxPages : PageOk(LoopPages(run[r])[k])
        /\ Len(RequestsOf(run[r], LoopIdx(run[r]))) = MaxPages

(***************************************************************************)
(* C8: for a repository whose page fetches all succeed, the digest's       *)
(* pullRequests is the concatenation, over the pages in the order they     *)
(* were fetched, of each page's non-draft records in within-page order:    *)
(* nothing is lost, duplicated or reordered.                               *)
(***************************************************************************)
C8_DigestIsConcatenation ==
    \A r \in Runs :
        LET st == run[r]
            pages == LoopPages(st)
        IN  (LoopIdx(st) >= 1 /\ \A k \in 1..Len(pages) : PageOk(pages[k])) =>
                Keys(LoopPullRequests(st)) =
                    Concat([k \in 1..Len(pages) |-> RecordKeys(NonDrafts(pages[k]))])

\* A digest of four summaries from two pages that each also held a draft.
C8_Reached ==
    \E r \in Runs :
        LET st == run[r]
        IN  /\ LoopEnded(st)
            /\ Len(LoopPages(st)) = 2
            /\ \A k \in 1..2 : PageOk(LoopPages(st)[k])
            /\ \A k \in 1..2 : Drafts(LoopPages(st)[k]) # <<>>
            /\ Len(NonDrafts(LoopPages(st)[1])) = 2
            /\ Len(LoopPullRequests(st)) = 4

(***************************************************************************)
(* C5: every run of main issues exactly one webhook post, whatever the     *)
(* number of repositories, of non-empty digests and of failed fetches; a   *)
(* failed post is not retried and nothing propagates out of the run: once  *)
(* the post has settled the run is over with nothing in flight.            *)
(***************************************************************************)
C5_ExactlyOnePost ==
    \A r \in Runs :
        LET st == run[r]
        IN  /\ Len(Posts(st)) <= 1
            /\ st.pc \in {"idle", "awaitGet", "returned"} => Posts(st) = <<>>
            /\ st.pc \in {"awaitPost", "done"} => Len(Posts(st)) = 1
            /\ st.pc = "awaitPost" => st.inflight = Posts(st)
            /\ st.pc = "done" =>
                   /\ st.inflight = <<>>
                   /\ Last(st.requests).kind = "post"
                   /\ Last(st.console) \in
                          {"DingTalk notification sent successfully:",
                           "Error sending DingTalk notification:"}
                   /\ "Error in main function:" \notin Range(st.console)

\* Every fetch of a three-repository run failed, and so did the post.
C5_Reached ==
    \E r \in Runs :
        LET st == run[r]
        IN  /\ st.pc = "done"
            /\ Len(st.repositories) = 3
            /\ \A i \in 1..3 : st.repositoriesData[i].pullRequests = <<>>
            /\ Len(SelectSeq(st.console,
                   LAMBDA l : l = "Error fetching pull requests:")) = 3
            /\ Last(st.console) = "Error sending DingTalk notification:"

(***************************************************************************)
(* C9: within one run operations are strictly sequential: at most one      *)
(* outbound request of the run is in flight at any time, a request for a   *)
(* repository is in flight only when the digests of all repositories       *)
(* before it, and no others, have been appended, and the webhook post is   *)
(* issued only after the digest of the last configured repository has      *)
(* been appended.                                                          *)
(***************************************************************************)
C9_StrictlySequential ==
    \A r \in Runs :
        LET st == run[r]
        IN  /\ Len(st.inflight) <= 1
            /\ st.inflight # <<>> => Head(st.inflight) = Last(st.requests)
            /\ \A k \in 1..Len(st.inflight) :
                   IF st.inflight[k].kind = "get"
                   THEN Len(st.repositoriesData) = st.inflight[k].idx - 1
                   ELSE Len(st.repositoriesData) = Len(st.repositories)
            /\ \A j, k \in 1..Len(st.requests) :
                   j < k =>
                       /\ st.requests[j].kind = "get"
                       /\ (st.requests[k].kind = "get" =>
                               st.requests[j].idx <= st.requests[k].idx)

\* The post is in flight after three repositories, and earlier a second page.
C9_Reached ==
    \E r \in Runs :
        LET st == run[r]
        IN  /\ st.pc = "awaitPost"
            /\ Len(st.repositoriesData) = 3
            /\ Len(st.requests) >= 5

(***************************************************************************)
(* C10: runs share no mutable state: when ticks fire while earlier runs    *)
(* are still awaiting, a step of one run leaves the locals of every other  *)
(* run as they were, each run's result is what its own responses make it,  *)
(* and each run issues its own single post, carrying the message built     *)
(* from its own result.                                                    *)
(***************************************************************************)
C10_OwnResult(st) ==
    /\ Len(Posts(st)) <= 1
    /\ st.pc \in {"returned", "awaitPost", "done"} =>
           /\ Len(st.repositoriesData) = 1
           /\ Keys(st.repositoriesData[1].pullRequests) = KeptKeys(LoopPages(st))
           /\ Len(RequestsOf(st, 1)) = Len(LoopPages(st))
    /\ st.pc \in {"awaitPost", "done"} =>
           /\ Len(Posts(st)) = 1
           /\ Posts(st)[1].body[1].text.content =
                  IF st.repositoriesData[1].pullRequests = <<>> THEN EmptyContent
                  ELSE ListingContent(Index, st.repositoriesData)

C10_RunsAreIndependent ==
    /\ [](\A r \in Runs : C10_OwnResult(run[r]))
    /\ [][\A r, q \in Runs : (r # q /\ run'[r] # run[r]) => run'[q] = run[q]]_vars

\* Two runs overlap: one is still fetching its second page while the other
\* already awaits its post, with a result of its own.
C10_Reached ==
    /\ run[1].pc = "awaitGet"
    /\ Len(run[1].pullRequests) = 1
    /\ run[2].pc = "awaitPost"
    /\ Len(run[2].repositoriesData[1].pullRequests) = 2

(***************************************************************************)
(* Reading a message body                                                  *)
(***************************************************************************)
\* The positions of the pieces of `content` that are in `marks`, ascending.
Positions(content, marks) ==
    SelectSeq([i \in 1..Len(content) |-> i], LAMBDA i : content[i] \in marks)

\* The pieces that follow / precede the pieces in `marks`.
After(content, marks) ==
    [k \in 1..Len(Positions(content, marks)) |->
        content[Positions(content, marks)[k] + 1]]
Before(content, marks) ==
    [k \in 1..Len(Positions(content, marks)) |->
        content[Positions(content, marks)[k] - 1]]

\* The repository names of the header lines of a body (names of two pieces).
HeaderNames(content) ==
    [k \in 1..Len(Positions(content, {"-- ", "**"})) |->
        SubSeq(content, Positions(content, {"-- ", "**"})[k] + 1,
               Positions(content, {"-- ", "**"})[k] + 2)]

\* The age clauses of a body: the number of days, and the unit as written.
AgeClauses(content) ==
    [k \in 1..Len(Positions(content, {" Opened ", "Duration: "})) |->
        LET p == Positions(content, {" Opened ", "Duration: "})[k]
        IN  [days |-> content[p + 1],
             unit |-> IF content[p + 2] \in {" day", " day\n"} /\ content[p + 3] = "s"
                      THEN "days"
                      ELSE IF content[p + 2] \in {" day", " day\n"} THEN "day"
                      ELSE "?"]]

\* All pull requests of a RunResult, in order.
AllPrs(repositoriesData) ==
    Concat([i \in 1..Len(repositoriesData) |-> repositoriesData[i].pullRequests])

AllEmpty(repositoriesData) ==
    \A i \in 1..Len(repositoriesData) : repositoriesData[i].pullRequests = <<>>

\* The greeting line that opens a listing body.
ListingGreetings ==
    {"Hi Team,\n\nKindly review the following pending pull requests. Please approve them as needed or close them if they are no longer applicable.\n\n",
     "Hi Team Dear developers, \n\nPlease review the following pending pull requests. Approve them accordingly, or close them if they are no longer relevant.\n\n"}

(***************************************************************************)
(* C6: for every RunResult in which every digest has zero pull requests    *)
(* (the RunResult with no digest included) createDingTalkMessage returns   *)
(* the fixed "no pull request" body verbatim, and for every RunResult with *)
(* a non-empty digest it returns the listing body.                         *)
(***************************************************************************)
C6_EmptyStateMessage ==
    fmtOutput # <<>> =>
        LET content == fmtOutput[1].text.content
        IN  IF AllEmpty(fmtInput)
            THEN content =
                     <<"Hi Team,\n\nCurrently there is no pull request(s) to be reviewed.\n\nThank you.">>
            ELSE /\ content[1] \in ListingGreetings
                 /\ Last(content) = "\n\nThank you."
                 /\ Len(content) > 2

\* The same statement for the copy of the function in pr-worker-index.js.
C6_EmptyStateMessageIndex == variant = Index => C6_EmptyStateMessage

C6_Reached ==
    /\ fmtOutput # <<>>
    /\ Len(fmtInput) = 2
    /\ AllEmpty(fmtInput)

(***************************************************************************)
(* C7: in the listing body the repositories with zero pull requests are    *)
(* omitted and the others appear in RunResult order, each pull request     *)
(* line carries its 1-based index within its repository, the age clause is *)
(* present exactly when ageDays > 0, with "day" for 1 and "days" for more, *)
(* and the comment-count clause is present exactly when commentCount > 0.  *)
(***************************************************************************)
C7_ListingBody ==
    (fmtOutput # <<>> /\ ~AllEmpty(fmtInput)) =>
        LET content == fmtOutput[1].text.content
            shown == SelectSeq(fmtInput, LAMBDA d : d.pullRequests # <<>>)
            aged == SelectSeq(AllPrs(fmtInput), LAMBDA p : p.duration > 0)
            commented == SelectSeq(AllPrs(fmtInput), LAMBDA p : p.commentCount > 0)
        IN  /\ HeaderNames(content) = [i \in 1..Len(shown) |-> shown[i].repo]
            /\ Before(content, {". "}) =
                   Concat([i \in 1..Len(shown) |->
                              [j \in 1..Len(shown[i].pullRequests) |-> ToString(j)]])
            /\ AgeClauses(content) =
                   [k \in 1..Len(aged) |->
                       [days |-> ToString(aged[k].duration),
                        unit |-> IF aged[k].duration > 1 THEN "days" ELSE "day"]]
            /\ After(content, {" Comments: ", "Comments: "}) =
                   [k \in 1..Len(commented) |-> ToString(commented[k].commentCount)]

\* The same statement for the copy of the function in pr-worker-index.js.
C7_ListingBodyIndex == variant = Index => C7_ListingBody

\* The statement without the singular and plural forms of the unit.
C7_ListingBodyButUnit ==
    (fmtOutput # <<>> /\ ~AllEmpty(fmtInput)) =>
        LET content == fmtOutput[1].text.content
            shown == SelectSeq(fmtInput, LAMBDA d : d.pullRequests # <<>>)
            aged == SelectSeq(AllPrs(fmtInput), LAMBDA p : p.duration > 0)
            commented == SelectSeq(AllPrs(fmtInput), LAMBDA p : p.commentCount > 0)
        IN  /\ HeaderNames(content) = [i \in 1..Len(shown) |-> shown[i].repo]
            /\ Before(content, {". "}) =
                   Concat([i \in 1..Len(shown) |->
                              [j \in 1..Len(shown[i].pullRequests) |-> ToString(j)]])
            /\ [k \in 1..Len(AgeClauses(content)) |-> AgeClauses(content)[k].days] =
                   [k \in 1..Len(aged) |-> ToString(aged[k].duration)]
            /\ After(content, {" Comments: ", "Comments: "}) =
                   [k \in 1..Len(commented) |-> ToString(commented[k].commentCount)]

====
